---- MODULE Spec2Model ----
(***************************************************************************)
(* catlin: the script linter (package linter, taskLinter) and the task     *)
(* validator (package validator, taskValidator).                           *)
(*                                                                         *)
(* Strings are TLA+ strings handled character by character with Len,       *)
(* SubSeq and \o, so that Go's byte slicing (script[0:2], script[0:14])    *)
(* and the string searches of the validator are computed, not assumed.     *)
(***************************************************************************)
EXTENDS Integers, Sequences, FiniteSets, TLC

\* ---------------------------------------------------------------- bounds
\* longest step list of a resource
MaxSteps == 2
\* temp-file I/O failures (create, write, close) injected in one behaviour
MaxFaults == 1

VARIABLES
    doc,        \* the resource document: kind, name, steps, broken
    environ,    \* the host: commands on the search path, commands exiting non-zero
    version,    \* schema revision the document was decoded as
    validator,  \* which Validate is running: "lint" or "task"
    entry,      \* "Validate" or "validateScript" (called directly with a table)
    pc,         \* position of the running call
    run,        \* 1 for the first decoding, 2 for the other revision
    first,      \* outcome of the first run (kept for the second)
    stepIdx,    \* index of the step being iterated
    total,      \* Validate's result
    taskName,   \* validateScript's taskName argument
    stepName,   \* validateScript's stepName argument
    given,      \* validateScript's script argument, as passed
    script,     \* validateScript's local script
    configs,    \* validateScript's configs argument
    ci,         \* index in configs (outer loop)
    li,         \* index in config.linters (inner loop)
    result,     \* validateScript's / validateStep's result
    files,      \* temporary files on disk
    deferred,   \* stack of deferred os.Remove calls of the running call
    nfiles,     \* temporary files created so far (names are unique)
    attempted,  \* <<ci, li>> of every linter reached in the running/last call
    execd,      \* <<ci, li>> of every linter whose command was run in the call
    faults,     \* I/O failures injected so far
    call,       \* "none", "active", "returned", "panicked": last validateScript / validateStep call
    lastStep    \* the step given to the last validateStep call

vars == <<doc, environ, version, validator, entry, pc, run, first, stepIdx, total,
          taskName, stepName, given, script, configs, ci, li, result, files, deferred,
          nfiles, attempted, execd, faults, call, lastStep>>

\* ------------------------------------------------------- string helpers
Range(s) == {s[i] : i \in 1..Len(s)}

Char(s, i) == SubSeq(s, i, i)

HasPrefix(s, p) == Len(s) >= Len(p) /\ SubSeq(s, 1, Len(p)) = p

HasSuffix(s, p) == Len(s) >= Len(p) /\ SubSeq(s, Len(s) - Len(p) + 1, Len(s)) = p

\* strings.Contains
Contains(s, p) == \E i \in 1..(Len(s) - Len(p) + 1) : SubSeq(s, i, i + Len(p) - 1) = p

\* index (1-based) of the first occurrence of p in s, 0 when there is none
Index(s, p) ==
    IF Contains(s, p)
    THEN CHOOSE i \in 1..(Len(s) - Len(p) + 1) :
            /\ SubSeq(s, i, i + Len(p) - 1) = p
            /\ \A j \in 1..(i - 1) : SubSeq(s, j, j + Len(p) - 1) # p
    ELSE 0

\* index of the last occurrence of p in s, 0 when there is none
LastIndex(s, p) ==
    IF Contains(s, p)
    THEN CHOOSE i \in 1..(Len(s) - Len(p) + 1) :
            /\ SubSeq(s, i, i + Len(p) - 1) = p
            /\ \A j \in (i + 1)..(Len(s) - Len(p) + 1) : SubSeq(s, j, j + Len(p) - 1) # p
    ELSE 0

\* strings.Split(s, sep)[0]
SplitFirst(s, sep) == IF Contains(s, sep) THEN SubSeq(s, 1, Index(s, sep) - 1) ELSE s

UpperCase == "ABCDEFGHIJKLMNOPQRSTUVWXYZ"
LowerCase == "abcdefghijklmnopqrstuvwxyz"
Digits    == "0123456789"

LowerChar(c) == IF Contains(UpperCase, c) THEN Char(LowerCase, Index(UpperCase, c)) ELSE c

RECURSIVE ToLower(_)
ToLower(s) == IF Len(s) = 0 THEN s ELSE LowerChar(Char(s, 1)) \o ToLower(SubSeq(s, 2, Len(s)))

\* strings.EqualFold on the ASCII strings used here
EqualFold(a, b) == ToLower(a) = ToLower(b)

\* ------------------------------------------------------------- Result
Warn(r, msg, args) == Append(r, [sev |-> "Warning", msg |-> msg, args |-> args])

Error(r, msg, args) == Append(r, [sev |-> "Error", msg |-> msg, args |-> args])

Errors(r) == {i \in 1..Len(r) : r[i].sev = "Error"}

Warnings(r) == {i \in 1..Len(r) : r[i].sev = "Warning"}

\* --------------------------------------------------- linter configuration
\* A configured pattern: src is the text of config.regexp; alts, name and opt
\* are its parse, (alt|alt|...)name(opt)?
Lit(t)     == [kind |-> "lit", text |-> t]
WS(t)      == [kind |-> "ws", text |-> t]
DotStar(t) == [kind |-> "dotstar", text |-> t]

ShRegexp ==
    [src  |-> "(/usr/bin/env |.*/bin/)sh",
     alts |-> {Lit("/usr/bin/env "), DotStar("/bin/")}, name |-> "sh", opt |-> ""]

BashRegexp ==
    [src  |-> "(/usr/bin/env |.*/bin/)bash",
     alts |-> {Lit("/usr/bin/env "), DotStar("/bin/")}, name |-> "bash", opt |-> ""]

PythonRegexp ==
    [src  |-> "(/usr/bin/env\\s|.*/bin/|/usr/libexec/platform-)python(23)?",
     alts |-> {WS("/usr/bin/env"), DotStar("/bin/"), Lit("/usr/libexec/platform-")},
     name |-> "python", opt |-> "23"]

NewConfig ==
    << [regexp |-> ShRegexp,
        linters |-> << [cmd |-> "shellcheck", args |-> <<"-s", "sh">>],
                       [cmd |-> "sh", args |-> <<"-n">>] >>],
       [regexp |-> BashRegexp,
        linters |-> << [cmd |-> "shellcheck", args |-> <<"-s", "bash">>],
                       [cmd |-> "bash", args |-> <<"-n">>] >>],
       [regexp |-> PythonRegexp,
        linters |-> << [cmd |-> "pylint", args |-> <<"-dC0103">>] >>] >>

\* Tables a caller of validateScript passes instead of the default one:
\* one whose first and third rules match the same shebang, and one with a
\* pattern that does not compile (unbalanced parenthesis).
AnyShRegexp ==
    [src |-> "(.*/)sh", alts |-> {DotStar("/")}, name |-> "sh", opt |-> ""]

BadRegexp ==
    [src |-> "(/usr/bin/env |.*/bin/bash", alts |-> {}, name |-> "", opt |-> ""]

OverlapConfig ==
    << [regexp |-> ShRegexp,
        linters |-> << [cmd |-> "shellcheck", args |-> <<"-s", "sh">>],
                       [cmd |-> "sh", args |-> <<"-n">>] >>],
       [regexp |-> BashRegexp,
        linters |-> << [cmd |-> "bash", args |-> <<"-n">>] >>],
       [regexp |-> AnyShRegexp,
        linters |-> << [cmd |-> "shfmt", args |-> <<"-d">>] >>] >>

BrokenConfig ==
    << [regexp |-> AnyShRegexp,
        linters |-> << [cmd |-> "shfmt", args |-> <<"-d">>] >>],
       [regexp |-> BadRegexp,
        linters |-> << [cmd |-> "bash", args |-> <<"-n">>] >>],
       [regexp |-> ShRegexp,
        linters |-> << [cmd |-> "sh", args |-> <<"-n">>] >>] >>

Tables == {NewConfig, OverlapConfig, BrokenConfig}

Commands == {"shellcheck", "sh", "bash", "pylint", "shfmt"}

\* ------------------------------------------------------ regexp.MatchString
\* nesting depth of the parentheses of src after its first n characters,
\* -1 once a ")" closes nothing
RECURSIVE ParenDepth(_, _)
ParenDepth(src, n) ==
    IF n = 0 THEN 0
    ELSE LET d == ParenDepth(src, n - 1)
         IN  IF d < 0 THEN d
             ELSE IF Char(src, n) = "(" THEN d + 1
             ELSE IF Char(src, n) = ")" THEN d - 1
             ELSE d

\* regexp.MatchString returns an error when the pattern does not compile
Compiles(re) == ParenDepth(re.src, Len(re.src)) = 0

\* \s of Go's regexp syntax
WhiteSpace == {" ", "\t", "\n", "\f", "\r"}

\* t is matched by one alternative of the group; "." does not match "\n"
AltMatch(a, t) ==
    CASE a.kind = "lit"     -> t = a.text
      [] a.kind = "ws"      -> /\ Len(t) = Len(a.text) + 1
                               /\ HasPrefix(t, a.text)
                               /\ Char(t, Len(t)) \in WhiteSpace
      [] a.kind = "dotstar" -> /\ HasSuffix(t, a.text)
                               /\ ~Contains(SubSeq(t, 1, Len(t) - Len(a.text)), "\n")

\* regexp.MatchString(`^#!` + config.regexp + `\n`, s), for a pattern that compiles
MatchString(re, s) ==
    /\ HasPrefix(s, "#!")
    /\ \E i \in 2..Len(s), j \in 2..Len(s) :
          /\ i <= j
          /\ \E a \in re.alts : AltMatch(a, SubSeq(s, 3, i))
          /\ \/ SubSeq(s, i + 1, j) = re.name
             \/ SubSeq(s, i + 1, j) = re.name \o re.opt
          /\ j < Len(s)
          /\ Char(s, j + 1) = "\n"

\* ------------------------------------------------------------ the inputs
\* step scripts: empty, one character, no shebang, a shebang shorter than
\* 14 characters, sh without env, env bash, env python, and env python3
\* (which no default pattern matches)
LintScripts ==
    {"", "x", "ls\n", "#!/bin/sh\n", "#!/bin/sh\necho hi\n",
     "#!/usr/bin/env bash\nls\n", "#!/usr/bin/env python\nx\n",
     "#!/usr/bin/env python3\nx\n"}

Kinds == {"Task", "task", "ClusterTask", "Pipeline"}

Versions == {"v1", "v1beta1"}

LintSteps ==
    {[name |-> "build", image |-> "docker.io/library/ubuntu:1.0",
      env |-> <<>>, envFrom |-> <<>>, script |-> s] : s \in LintScripts}

SeqsUpTo(S, n) == UNION {[1..k -> S] : k \in 0..n}

\* steps of the documents that have more than one step
FewLintSteps ==
    {s \in LintSteps : s.script \in {"", "x", "ls\n", "#!/bin/sh\necho hi\n"}}

\* documents: a Task with any single step or a short step list, the other
\* kinds with at most one step, and an undecodable document of each kind
LintDocs ==
    {d \in [kind : Kinds, name : {"t"},
            steps : SeqsUpTo(FewLintSteps, MaxSteps) \cup {<<s>> : s \in LintSteps},
            broken : BOOLEAN] :
        /\ d.broken => d.steps = <<>>
        /\ d.kind # "Task" => Len(d.steps) <= 1}

\* the resource of a taskLinter whose validateScript is called directly
TestDoc == [kind |-> "Task", name |-> "t", steps |-> <<>>, broken |-> FALSE]

\* hosts: everything installed and passing; shellcheck exiting non-zero;
\* shellcheck not installed; sh not installed and shellcheck exiting non-zero
Environs ==
    {[path |-> Commands, failing |-> {}],
     [path |-> Commands, failing |-> {"shellcheck"}],
     [path |-> Commands \ {"shellcheck"}, failing |-> {}],
     [path |-> Commands \ {"sh"}, failing |-> {"shellcheck"}]}

\* ----------------------------------------------------- parser.Resource
\* ToType: the typed value of a document, or a decoding error
ToType(d, v) ==
    IF d.broken THEN [err |-> TRUE, type |-> "nil"]
    ELSE IF ToLower(d.kind) = "task" THEN [err |-> FALSE, type |-> "*" \o v \o ".Task"]
    ELSE IF ToLower(d.kind) = "clustertask" THEN [err |-> FALSE, type |-> "*v1beta1.ClusterTask"]
    ELSE [err |-> FALSE, type |-> "*" \o v \o "." \o d.kind]

\* ------------------------------------- go-containerregistry, package name
\* (the image-reference collaborator, called with name.WeakValidation)
TagChars        == LowerCase \o UpperCase \o Digits \o "_-."
RepositoryChars == LowerCase \o Digits \o "_-./"
RegistryChars   == LowerCase \o UpperCase \o Digits \o ".-:"
HexChars        == "0123456789abcdef"
DefaultTag      == "latest"
DefaultRegistry == "index.docker.io"

AllIn(s, allowed) == \A k \in 1..Len(s) : Contains(allowed, Char(s, k))

\* checkElement: the length is within bounds and every character is allowed
CheckElement(s, allowed, minLen, maxLen) ==
    /\ minLen <= Len(s)
    /\ Len(s) <= maxLen
    /\ AllIn(s, allowed)

CountOf(s, c) == Cardinality({k \in 1..Len(s) : Char(s, k) = c})

\* name.NewRepository: the first path segment is the registry iff it has a
\* "." or a ":"; the rest must be a repository name of 2 to 255 characters
NewRepository(n) ==
    IF Len(n) = 0 THEN [err |-> TRUE, name |-> ""]
    ELSE LET first1 == SplitFirst(n, "/")
             split == Contains(n, "/") /\ (Contains(first1, ".") \/ Contains(first1, ":"))
             registry == IF split THEN first1 ELSE ""
             repo == IF split THEN SubSeq(n, Len(first1) + 2, Len(n)) ELSE n
         IN  IF ~CheckElement(repo, RepositoryChars, 2, 255) \/ ~AllIn(registry, RegistryChars)
             THEN [err |-> TRUE, name |-> ""]
             ELSE [err |-> FALSE,
                   name |-> (IF registry = "" THEN DefaultRegistry ELSE registry) \o "/" \o repo]

\* name.NewTag: what follows the last ":" is the tag unless it holds a "/"
\* (then it is a port); a missing tag defaults to latest
NewTag(n) ==
    LET k == LastIndex(n, ":")
        last == SubSeq(n, k + 1, Len(n))
        hasTag == k > 0 /\ ~Contains(last, "/")
        base == IF hasTag THEN SubSeq(n, 1, k - 1) ELSE n
        tag == IF hasTag THEN last ELSE ""
        repo == NewRepository(base)
    IN  IF tag # "" /\ ~CheckElement(tag, TagChars, 1, 128)
        THEN [err |-> TRUE, identifier |-> "", repository |-> ""]
        ELSE IF repo.err
        THEN [err |-> TRUE, identifier |-> "", repository |-> ""]
        ELSE [err |-> FALSE, identifier |-> IF tag = "" THEN DefaultTag ELSE tag,
              repository |-> repo.name]

\* name.NewDigest: exactly one "@", then sha256: and 64 hex characters; the
\* base may carry a tag; String() is the reference as given
NewDigest(n) ==
    IF CountOf(n, "@") # 1 THEN [err |-> TRUE, string |-> ""]
    ELSE LET base == SplitFirst(n, "@")
             dig == SubSeq(n, Len(base) + 2, Len(n))
             hex == SubSeq(dig, 8, Len(dig))
             tag == NewTag(base)
         IN  IF ~HasPrefix(dig, "sha256:") \/ ~CheckElement(hex, HexChars, 64, 64)
             THEN [err |-> TRUE, string |-> ""]
             ELSE IF tag.err /\ NewRepository(base).err
             THEN [err |-> TRUE, string |-> ""]
             ELSE [err |-> FALSE, string |-> n]

\* ------------------------------------------------------- taskValidator
IdentStart == LowerCase \o UpperCase \o "_"
IdentChars == LowerCase \o UpperCase \o Digits \o "_.-"

\* the text from "$(" at i to ")" at j is a match of braceMatchingRegex:
\* $( prefix, any character, a parameter name, an optional [*], )
ExprMatch(s, prefix, i, j) ==
    LET k == i + 2 + Len(prefix)
        body == SubSeq(s, k + 2, j - 1)
        name == IF HasSuffix(body, "[*]") THEN SubSeq(body, 1, Len(body) - 3) ELSE body
    IN  /\ k + 1 < j
        /\ SubSeq(s, i, i + 1) = "$("
        /\ SubSeq(s, i + 2, k - 1) = prefix
        /\ Char(s, k) # "\n"
        /\ Contains(IdentStart, Char(s, k + 1))
        /\ Char(s, j) = ")"
        /\ \/ AllIn(body, IdentChars)
           \/ AllIn(name, IdentChars)

\* extractExpressionFromString: the leftmost match, and whether there is one
extractExpressionFromString(s, prefix) ==
    LET starts == {i \in 1..(Len(s) - 1) : SubSeq(s, i, i + 1) = "$("}
        M == {m \in starts \X (1..Len(s)) : ExprMatch(s, prefix, m[1], m[2])}
    IN  IF M = {} THEN [expr |-> "", found |-> FALSE]
        ELSE LET m == CHOOSE x \in M : \A y \in M : x[1] <= y[1]
             IN  [expr |-> SubSeq(s, m[1], m[2]), found |-> TRUE]

isValidRegistry(img) == Contains(SplitFirst(img, "/"), ".")

\* tagWithDigest: the image has a specific tag along with the digest
tagWithDigest(img) ==
    LET withOutDigest == SplitFirst(img, "@sha256")
    IN  Contains(withOutDigest, ":") /\ ~HasSuffix(withOutDigest, ":latest")

MsgVariables == "Step %q uses image %q that contains variables; skipping validation"
MsgQualified == "Step %q uses image %q; consider using a fully qualified name - e.g. docker.io/library/ubuntu:1.0"
MsgBadDigest == "Step %q uses image %q with an invalid digest. Error: %s"
MsgTagDigest == "Step %q uses image %q; consider using an image tagged with specific version along with digest eg. abc.io/img:v1@sha256:abcde"
MsgBadTag    == "Step %q uses image %q with an invalid tag. Error: %s"
MsgLatest    == "Step %q uses image %q which must be tagged with a specific version"
MsgSecretEnv == "Step %q uses secret to populate env %q. Prefer using secrets as files over secrets as environment variables"
MsgSecretEnvFrom == "Step %q uses secret as environment variables. Prefer using secrets as files over secrets as environment variables"
MsgParamInScript == "Step %q references %q directly from its script block. For reliability and security, consider putting the param into an environment variable of the Step and accessing that environment variable in your script instead."

\* the tag compared with == instead of strings.EqualFold
IsLatestCaseSensitive(identifier) == identifier = "latest"

\* strings.EqualFold(ref.Identifier(), "latest")
IsLatest(identifier) == EqualFold(identifier, "latest")

\* for _, e := range env
RECURSIVE EnvRule(_, _, _, _)
EnvRule(r, ver, name, env) ==
    IF env = <<>> THEN r
    ELSE LET e == Head(env)
             secret == e.valueFrom.set /\ e.valueFrom.secretKeyRef
             r1 == IF ver \in {"v1", "v1beta1"} /\ secret
                   THEN Warn(r, MsgSecretEnv, <<name, e.name>>)
                   ELSE r
         IN  EnvRule(r1, ver, name, Tail(env))

\* for _, e := range envFrom
RECURSIVE EnvFromRule(_, _, _, _)
EnvFromRule(r, ver, name, envFrom) ==
    IF envFrom = <<>> THEN r
    ELSE LET e == Head(envFrom)
             r1 == IF ver \in {"v1", "v1beta1"} /\ e.secretRef
                   THEN Warn(r, MsgSecretEnvFrom, <<name>>)
                   ELSE r
         IN  EnvFromRule(r1, ver, name, Tail(envFrom))

\* if script != "": the first $(params.x) of the script
ScriptRule(r, name, text) ==
    IF text # "" /\ extractExpressionFromString(text, "params").expr # ""
    THEN Warn(r, MsgParamInScript, <<name, extractExpressionFromString(text, "params").expr>>)
    ELSE r

\* validateStep, for a step of dynamic type stepType
validateStep(stepType, s) ==
    IF stepType \notin {"v1.Step", "v1beta1.Step"} THEN <<>>
    ELSE
    LET ver == IF stepType = "v1.Step" THEN "v1" ELSE "v1beta1"
        img == s.image
    IN  IF extractExpressionFromString(img, "").found
        THEN Warn(<<>>, MsgVariables, <<s.name, img>>)
        ELSE
        LET r1 == IF ~Contains(img, "/") \/ ~isValidRegistry(img)
                  THEN Warn(<<>>, MsgQualified, <<s.name, img>>)
                  ELSE <<>>
        IN  IF Contains(img, "@sha256")
            THEN LET rep == NewDigest(img)
                 IN  IF rep.err THEN Error(r1, MsgBadDigest, <<s.name, img>>)
                     ELSE IF ~tagWithDigest(rep.string)
                     THEN Warn(r1, MsgTagDigest, <<s.name, img>>)
                     ELSE r1
            ELSE LET ref == NewTag(img)
                 IN  IF ref.err THEN Error(r1, MsgBadTag, <<s.name, img>>)
                     ELSE
                     LET r2 == IF IsLatest(ref.identifier)
                               THEN Error(r1, MsgLatest, <<s.name, img>>)
                               ELSE r1
                         r3 == EnvRule(r2, ver, s.name, s.env)
                         r4 == EnvFromRule(r3, ver, s.name, s.envFrom)
                     IN  ScriptRule(r4, s.name, s.script)

\* -------------------------------------------------- the validator's inputs
Hex64 == "0123456789abcdef0123456789abcdef0123456789abcdef0123456789abcdef"

Images ==
    {"ubuntu", "ubuntu:1.0", "docker.io/library/ubuntu:1.0",
     "host.example.com/repo:latest", "host.example.com/repo:LATEST",
     "localhost:5000/repo", "host.example.com/repo:a!b",
     "$(params.image)", "host.example.com/$(params.repo):1.0",
     "host.example.com/repo@sha256:" \o Hex64,
     "host.example.com/repo:latest@sha256:" \o Hex64,
     "host.example.com/repo:v1@sha256:" \o Hex64,
     "localhost:5000/repo@sha256:" \o Hex64,
     "host.example.com:5000/repo:latest@sha256:" \o Hex64,
     "ubuntu@sha256:" \o Hex64,
     "host.example.com/repo@sha256:abc123"}

NoValueFrom == [set |-> FALSE, secretKeyRef |-> FALSE]
SecretKey   == [set |-> TRUE, secretKeyRef |-> TRUE]
ConfigKey   == [set |-> TRUE, secretKeyRef |-> FALSE]

Envs ==
    {<<>>,
     <<[name |-> "TOKEN", valueFrom |-> SecretKey]>>,
     <<[name |-> "HOME", valueFrom |-> NoValueFrom], [name |-> "TOKEN", valueFrom |-> SecretKey],
       [name |-> "MODE", valueFrom |-> ConfigKey], [name |-> "PASS", valueFrom |-> SecretKey]>>}

EnvFroms ==
    {<<>>,
     <<[secretRef |-> FALSE], [secretRef |-> TRUE]>>}

TaskScripts == {"", "echo hi\n", "#!/bin/sh\necho $(params.name)\n"}

TaskSteps ==
    [name : {"build"}, image : Images, env : Envs, envFrom : EnvFroms, script : TaskScripts]

\* steps of the documents that have more than one step
FewSteps ==
    {s \in TaskSteps :
        /\ s.image \in {"ubuntu", "docker.io/library/ubuntu:1.0"}
        /\ Len(s.env) <= 1
        /\ s.envFrom = <<>>
        /\ s.script # "echo hi\n"}

\* documents: every single step, short step lists, a ClusterTask, an
\* undecodable document
TaskDocs ==
    {d \in [kind : {"Task", "task", "ClusterTask"}, name : {"t"},
            steps : SeqsUpTo(FewSteps, MaxSteps) \cup {<<s>> : s \in TaskSteps},
            broken : BOOLEAN] :
        /\ d.broken => d.steps = <<>>
        /\ d.kind # "Task" => d.steps \in SeqsUpTo(FewSteps, 1)}

\* ------------------------------------------------------------ the state
InitLint ==
    /\ \/ entry = "Validate" /\ doc \in LintDocs
       \/ entry = "validateScript" /\ doc = TestDoc
    /\ environ \in Environs
    /\ version = "v1"
    /\ validator = "none"
    /\ pc = "idle"
    /\ run = 1
    /\ first = [st |-> "none", version |-> "none", findings |-> <<>>]
    /\ stepIdx = 0
    /\ total = <<>>
    /\ taskName = ""
    /\ stepName = ""
    /\ given = ""
    /\ script = ""
    /\ configs = <<>>
    /\ ci = 0
    /\ li = 0
    /\ result = <<>>
    /\ files = {}
    /\ deferred = <<>>
    /\ nfiles = 0
    /\ attempted = <<>>
    /\ execd = <<>>
    /\ faults = 0
    /\ call = "none"
    /\ lastStep = [name |-> "", image |-> "", env |-> <<>>, envFrom |-> <<>>, script |-> ""]

hostVars == <<doc, environ>>
runVars  == <<version, validator, entry, run, first>>
callVars == <<taskName, stepName, given, script, configs, ci, li, result, deferred,
              attempted, execd, call>>

\* the revision a run may decode the document as: any for the first run,
\* the other one for the second
Decodable(v) == run = 1 \/ v # first.version

\* ------------------------------------------------- taskLinter.Validate
\* res.(*v1.Task): a type assertion in the single-value form panics when the
\* dynamic type of res is not the asserted one
AssertType(type, asserted) == IF type = asserted THEN "ok" ELSE "panic"

\* Validate up to the call of collectOverSteps
LintValidate(v) ==
    /\ pc = "idle"
    /\ Decodable(v)
    /\ entry = "Validate"
    /\ version' = v
    /\ validator' = "lint"
    /\ LET res == ToType(doc, v)
           kind == ToLower(doc.kind)
       IN  IF res.err
           THEN /\ total' = Error(<<>>, "Failed to decode to a Task - %s", <<"err">>)
                /\ pc' = "done"
           ELSE IF kind = "task"
           THEN /\ total' = <<>>
                /\ pc' = IF AssertType(res.type, "*v1.Task") = "ok" THEN "collect" ELSE "panic"
           ELSE IF kind = "clustertask"
           THEN /\ total' = <<>>
                /\ pc' = IF AssertType(res.type, "*v1beta1.ClusterTask") = "ok"
                         THEN "collect" ELSE "panic"
           ELSE /\ total' = <<>>
                /\ pc' = "done"
    /\ stepIdx' = 1
    /\ UNCHANGED <<hostVars, entry, run, first, callVars, files, nfiles, faults, lastStep>>

\* collectOverSteps: a step without a script is passed over
CollectSkip ==
    /\ pc = "collect"
    /\ stepIdx <= Len(doc.steps)
    /\ doc.steps[stepIdx].script = ""
    /\ stepIdx' = stepIdx + 1
    /\ UNCHANGED <<hostVars, runVars, pc, total, callVars, files, nfiles, faults, lastStep>>

\* collectOverSteps: t.validateScript(name, step.Script, t.configs, step.Name)
CollectCall ==
    /\ pc = "collect"
    /\ stepIdx <= Len(doc.steps)
    /\ doc.steps[stepIdx].script # ""
    /\ taskName' = doc.name
    /\ stepName' = doc.steps[stepIdx].name
    /\ given' = doc.steps[stepIdx].script
    /\ script' = doc.steps[stepIdx].script
    /\ configs' = NewConfig
    /\ result' = <<>>
    /\ ci' = 0
    /\ li' = 0
    /\ deferred' = <<>>
    /\ attempted' = <<>>
    /\ execd' = <<>>
    /\ call' = "active"
    /\ pc' = "vs_shebang"
    /\ UNCHANGED <<hostVars, runVars, stepIdx, total, files, nfiles, faults, lastStep>>

\* collectOverSteps and Validate return
LintReturn ==
    /\ pc = "collect"
    /\ stepIdx > Len(doc.steps)
    /\ pc' = "done"
    /\ UNCHANGED <<hostVars, runVars, stepIdx, total, callVars, files, nfiles, faults, lastStep>>

\* validateScript called with a table of the caller's choice
CallValidateScript(table, text) ==
    /\ pc = "idle"
    /\ entry = "validateScript"
    /\ text # ""
    /\ validator' = "lint"
    /\ taskName' = doc.name
    /\ stepName' = "build"
    /\ given' = text
    /\ script' = text
    /\ configs' = table
    /\ result' = <<>>
    /\ ci' = 0
    /\ li' = 0
    /\ deferred' = <<>>
    /\ attempted' = <<>>
    /\ execd' = <<>>
    /\ call' = "active"
    /\ pc' = "vs_shebang"
    /\ UNCHANGED <<hostVars, version, entry, run, first, stepIdx, total, files, nfiles, faults,
                   lastStep>>

\* --------------------------------------------- taskLinter.validateScript
\* s[0:n] of Go: a run-time panic when n exceeds len(s)
SliceInRange(s, n) == n <= Len(s)

DefaultShebang == "#!/usr/bin/env sh\n"

\* the shebang check: script[0:2], then script[0:14]
Shebang ==
    /\ pc = "vs_shebang"
    /\ IF ~SliceInRange(script, 2)
       THEN /\ pc' = "panic"
            /\ call' = "panicked"
            /\ UNCHANGED <<script, result, ci>>
       ELSE IF SubSeq(script, 1, 2) # "#!"
       THEN /\ script' = DefaultShebang \o script
            /\ pc' = "vs_config"
            /\ ci' = 1
            /\ UNCHANGED <<result, call>>
       ELSE IF ~SliceInRange(script, 14)
       THEN /\ pc' = "panic"
            /\ call' = "panicked"
            /\ UNCHANGED <<script, result, ci>>
       ELSE /\ result' = IF SubSeq(script, 1, 14) # "#!/usr/bin/env"
                         THEN Warn(result, "step: %s is not using #!/usr/bin/env ", <<taskName>>)
                         ELSE result
            /\ pc' = "vs_config"
            /\ ci' = 1
            /\ UNCHANGED <<script, call>>
    /\ UNCHANGED <<hostVars, runVars, stepIdx, total, taskName, stepName, given, configs, li,
                   deferred, attempted, execd, files, nfiles, faults, lastStep>>

\* for _, config := range configs: the pattern is matched against the script
NextConfig ==
    /\ pc = "vs_config"
    /\ IF ci > Len(configs)
       THEN /\ pc' = "vs_exit"
            /\ UNCHANGED <<result, ci, li>>
       ELSE IF ~Compiles(configs[ci].regexp)
       THEN /\ result' = Error(result, "Invalid regexp: %s", <<configs[ci].regexp.src>>)
            /\ pc' = "vs_exit"
            /\ UNCHANGED <<ci, li>>
       ELSE IF ~MatchString(configs[ci].regexp, script)
       THEN /\ ci' = ci + 1
            /\ UNCHANGED <<pc, result, li>>
       ELSE /\ li' = 1
            /\ pc' = "vs_linter"
            /\ UNCHANGED <<result, ci>>
    /\ UNCHANGED <<hostVars, runVars, stepIdx, total, taskName, stepName, given, script, configs,
                   deferred, attempted, execd, call, files, nfiles, faults, lastStep>>

\* for _, linter := range config.linters: the range is exhausted
EndLinters ==
    /\ pc = "vs_linter"
    /\ li > Len(configs[ci].linters)
    /\ ci' = ci + 1
    /\ pc' = "vs_config"
    /\ UNCHANGED <<hostVars, runVars, stepIdx, total, taskName, stepName, given, script, configs, li,
                   result, deferred, attempted, execd, call, files, nfiles, faults, lastStep>>

\* exec.LookPath(linter.cmd)
LookPath ==
    /\ pc = "vs_linter"
    /\ li <= Len(configs[ci].linters)
    /\ attempted' = Append(attempted, <<ci, li>>)
    /\ LET cmd == configs[ci].linters[li].cmd
       IN  IF cmd \notin environ.path
           THEN /\ result' = Error(result, "Couldn't find the linter %s in the path", <<cmd>>)
                /\ pc' = "vs_exit"
           ELSE /\ pc' = "vs_create"
                /\ UNCHANGED result
    /\ UNCHANGED <<hostVars, runVars, stepIdx, total, taskName, stepName, given, script, configs, ci, li,
                   deferred, execd, call, files, nfiles, faults, lastStep>>

\* os.CreateTemp, then defer os.Remove(tmpfile.Name())
CreateTemp ==
    /\ pc = "vs_create"
    /\ \/ /\ files' = files \cup {nfiles + 1}
          /\ nfiles' = nfiles + 1
          /\ deferred' = Append(deferred, nfiles + 1)
          /\ pc' = "vs_write"
          /\ UNCHANGED <<result, faults>>
       \/ /\ faults < MaxFaults
          /\ faults' = faults + 1
          /\ result' = Error(result, "Cannot create temporary files", <<>>)
          /\ pc' = "vs_exit"
          /\ UNCHANGED <<files, nfiles, deferred>>
    /\ UNCHANGED <<hostVars, runVars, stepIdx, total, taskName, stepName, given, script, configs, ci, li,
                   attempted, execd, call, lastStep>>

\* tmpfile.Write([]byte(script))
WriteTemp ==
    /\ pc = "vs_write"
    /\ \/ /\ pc' = "vs_close"
          /\ UNCHANGED <<result, faults>>
       \/ /\ faults < MaxFaults
          /\ faults' = faults + 1
          /\ result' = Error(result, "Cannot write to temporary files", <<>>)
          /\ pc' = "vs_exit"
    /\ UNCHANGED <<hostVars, runVars, stepIdx, total, taskName, stepName, given, script, configs, ci, li,
                   deferred, attempted, execd, call, files, nfiles, lastStep>>

\* tmpfile.Close()
CloseTemp ==
    /\ pc = "vs_close"
    /\ \/ /\ pc' = "vs_exec"
          /\ UNCHANGED <<result, faults>>
       \/ /\ faults < MaxFaults
          /\ faults' = faults + 1
          /\ result' = Error(result, "Cannot close temporary files", <<>>)
          /\ pc' = "vs_exit"
    /\ UNCHANGED <<hostVars, runVars, stepIdx, total, taskName, stepName, given, script, configs, ci, li,
                   deferred, attempted, execd, call, files, nfiles, lastStep>>

\* exec.Command(execpath, append(linter.args, tmpfile.Name())...).CombinedOutput()
Exec ==
    /\ pc = "vs_exec"
    /\ execd' = Append(execd, <<ci, li>>)
    /\ LET linter == configs[ci].linters[li]
       IN  result' = IF linter.cmd \in environ.failing
                     THEN Error(result, "%s, %s failed:\n%s",
                                <<linter.cmd, linter.args, taskName \o "-" \o stepName>>)
                     ELSE result
    /\ li' = li + 1
    /\ pc' = "vs_linter"
    /\ UNCHANGED <<hostVars, runVars, stepIdx, total, taskName, stepName, given, script, configs, ci,
                   deferred, attempted, call, files, nfiles, faults, lastStep>>

\* only the most recently deferred os.Remove runs
RunDeferredLastOnly(onDisk, stack) ==
    IF stack = <<>> THEN onDisk ELSE onDisk \ {stack[Len(stack)]}

\* the deferred os.Remove calls run when validateScript returns
RunDeferred(onDisk, stack) == onDisk \ Range(stack)

\* return result: the deferred calls run, and under Validate the result is
\* appended to Validate's
Return ==
    /\ pc = "vs_exit"
    /\ files' = RunDeferred(files, deferred)
    /\ deferred' = <<>>
    /\ call' = "returned"
    /\ IF entry = "Validate"
       THEN /\ total' = total \o result
            /\ stepIdx' = stepIdx + 1
            /\ pc' = "collect"
       ELSE /\ total' = result
            /\ pc' = "done"
            /\ UNCHANGED stepIdx
    /\ UNCHANGED <<hostVars, runVars, taskName, stepName, given, script, configs, ci, li, result,
                   attempted, execd, nfiles, faults, lastStep>>

\* ------------------------------------------------ taskValidator.Validate
\* Validate up to the type switch on the decoded value
TaskValidate(v) ==
    /\ pc = "idle"
    /\ Decodable(v)
    /\ entry = "Validate"
    /\ version' = v
    /\ validator' = "task"
    /\ LET res == ToType(doc, v)
       IN  IF res.err
           THEN /\ total' = Error(<<>>, "Failed to decode to a Task - %s", <<"err">>)
                /\ pc' = "done"
           ELSE /\ total' = <<>>
                /\ pc' = IF res.type \in {"*v1.Task", "*v1beta1.Task"} THEN "tv_steps" ELSE "done"
    /\ stepIdx' = 1
    /\ UNCHANGED <<hostVars, entry, run, first, callVars, files, nfiles, faults, lastStep>>

\* result.Append(t.validateStep(step)) for the next step of task.Spec.Steps
TaskStep ==
    /\ pc = "tv_steps"
    /\ stepIdx <= Len(doc.steps)
    /\ LET r == validateStep(version \o ".Step", doc.steps[stepIdx])
       IN  /\ result' = r
           /\ total' = total \o r
    /\ lastStep' = doc.steps[stepIdx]
    /\ call' = "returned"
    /\ stepIdx' = stepIdx + 1
    /\ UNCHANGED <<hostVars, runVars, pc, taskName, stepName, given, script, configs, ci, li,
                   deferred, attempted, execd, files, nfiles, faults>>

\* the range is exhausted: return result
TaskReturn ==
    /\ pc = "tv_steps"
    /\ stepIdx > Len(doc.steps)
    /\ pc' = "done"
    /\ UNCHANGED <<hostVars, runVars, stepIdx, total, callVars, files, nfiles, faults, lastStep>>

\* the same document decoded as the other schema revision and validated again
Redecode ==
    /\ pc \in {"done", "panic"}
    /\ entry = "Validate"
    /\ run = 1
    /\ run' = 2
    /\ first' = [st |-> IF pc = "panic" THEN "abort" ELSE "ok", version |-> version,
                 findings |-> IF pc = "panic" THEN <<>> ELSE total]
    /\ pc' = "idle"
    /\ total' = <<>>
    /\ stepIdx' = 0
    /\ call' = "none"
    /\ result' = <<>>
    /\ attempted' = <<>>
    /\ execd' = <<>>
    /\ deferred' = <<>>
    /\ UNCHANGED <<hostVars, version, validator, entry, taskName, stepName, given, script, configs,
                   ci, li, files, nfiles, faults, lastStep>>

Next ==
    \/ \E v \in Versions : LintValidate(v)
    \/ CollectSkip
    \/ CollectCall
    \/ LintReturn
    \/ \E table \in Tables, text \in LintScripts : CallValidateScript(table, text)
    \/ Shebang
    \/ NextConfig
    \/ EndLinters
    \/ LookPath
    \/ CreateTemp
    \/ WriteTemp
    \/ CloseTemp
    \/ Exec
    \/ Return
    \/ Redecode

Spec == InitLint /\ [][Next]_vars

InitTask ==
    /\ entry = "Validate"
    /\ doc \in TaskDocs
    /\ environ = [path |-> Commands, failing |-> {}]
    /\ version = "v1"
    /\ validator = "none"
    /\ pc = "idle"
    /\ run = 1
    /\ first = [st |-> "none", version |-> "none", findings |-> <<>>]
    /\ stepIdx = 0
    /\ total = <<>>
    /\ taskName = ""
    /\ stepName = ""
    /\ given = ""
    /\ script = ""
    /\ configs = <<>>
    /\ ci = 0
    /\ li = 0
    /\ result = <<>>
    /\ files = {}
    /\ deferred = <<>>
    /\ nfiles = 0
    /\ attempted = <<>>
    /\ execd = <<>>
    /\ faults = 0
    /\ call = "none"
    /\ lastStep = [name |-> "", image |-> "", env |-> <<>>, envFrom |-> <<>>, script |-> ""]

NextTask ==
    \/ \E v \in Versions : TaskValidate(v)
    \/ TaskStep
    \/ TaskReturn
    \/ Redecode

SpecTask == InitTask /\ [][NextTask]_vars

\* ============================================================ properties
\* the rules of a table that compile and match the script
MatchingRules(cfgs, s) ==
    {c \in 1..Len(cfgs) : Compiles(cfgs[c].regexp) /\ MatchString(cfgs[c].regexp, s)}

\* the linters of the matching rules, by rule position then linter position
RECURSIVE ExpectedFrom(_, _, _)
ExpectedFrom(cfgs, s, c) ==
    IF c > Len(cfgs) THEN <<>>
    ELSE (IF c \in MatchingRules(cfgs, s)
          THEN [l \in 1..Len(cfgs[c].linters) |-> <<c, l>>]
          ELSE <<>>) \o ExpectedFrom(cfgs, s, c + 1)

ExpectedLinters == ExpectedFrom(configs, script, 1)

AllCompile == \A c \in 1..Len(configs) : Compiles(configs[c].regexp)

IOFault(r) ==
    \E i \in 1..Len(r) : r[i].msg \in {"Cannot create temporary files",
                                       "Cannot write to temporary files",
                                       "Cannot close temporary files"}

\* the k-th attempted invocation failed: its command is not on the search
\* path, or it was run and exited non-zero
FailedAttempt(k) ==
    LET cmd == configs[attempted[k][1]].linters[attempted[k][2]].cmd
    IN  \/ cmd \notin environ.path
        \/ attempted[k] \in Range(execd) /\ cmd \in environ.failing

LintReturned == validator = "lint" /\ call = "returned"

StepReturned == validator = "task" /\ call = "returned"

CountMsg(r, msg) == Cardinality({i \in 1..Len(r) : r[i].sev = "Warning" /\ r[i].msg = msg})

\* C1: validateScript never aborts: whatever the non-empty script (one
\* character, a "#!" line shorter than 14 characters, ...), the call ends by
\* returning a Result, never by a run-time panic.
C1_ValidateScriptNeverAborts ==
    call # "panicked"

\* C2: for a document of kind "task" (any letter case), Validate of either
\* validator does not abort on the decoded value under either schema
\* revision, and the run under the second revision ends as the run under the
\* first did, with the same findings.
C2_SchemaRevisionIndependence ==
    (entry = "Validate" /\ validator # "none" /\ ToLower(doc.kind) = "task") =>
        /\ ~(pc = "panic" /\ call # "panicked")
        /\ (run = 2 /\ pc \in {"done", "panic"}) =>
              /\ first.st = (IF pc = "panic" THEN "abort" ELSE "ok")
              /\ pc = "done" => total = first.findings

\* C3: in a validateScript call without temp-file failures over a table whose
\* patterns compile, each failed invocation (command not found, or non-zero
\* exit) adds exactly one Error, and every later linter of the matching rules
\* is still attempted.
C3_FailureIsolation ==
    (LintReturned /\ AllCompile /\ ~IOFault(result)) =>
        /\ Cardinality(Errors(result)) =
              Cardinality({k \in 1..Len(attempted) : FailedAttempt(k)})
        /\ (\E k \in 1..Len(attempted) : FailedAttempt(k)) => attempted = ExpectedLinters

\* C4: when validateScript has returned, on whatever path, no temporary file
\* it created is on disk.
C4_NoTempFileOutlivesCall ==
    LintReturned => files = {}

\* C4 witness: a call that created a temporary file for its first linter and
\* returned because the next linter's command was not found.
C4_Witness ==
    /\ LintReturned
    /\ files = {}
    /\ nfiles >= 1
    /\ Len(attempted) >= 2
    /\ Len(execd) >= 1
    /\ result # <<>>
    /\ result[Len(result)].msg = "Couldn't find the linter %s in the path"

\* C5: validateStep emits one secret-as-env Warning per Env entry with a
\* secret key reference and one per EnvFrom entry with a secret reference,
\* whatever the image rules found.
C5_SecretRulesIndependentOfImage ==
    StepReturned =>
        /\ CountMsg(result, MsgSecretEnv) =
              Cardinality({i \in 1..Len(lastStep.env) :
                              lastStep.env[i].valueFrom.set /\ lastStep.env[i].valueFrom.secretKeyRef})
        /\ CountMsg(result, MsgSecretEnvFrom) =
              Cardinality({i \in 1..Len(lastStep.envFrom) : lastStep.envFrom[i].secretRef})

\* the image is a well-formed digest reference
WellFormedDigest(img) == Contains(img, "@sha256") /\ ~NewDigest(img).err

\* the tag before the digest, latest when the reference names none
TagBeforeDigest(img) == NewTag(SplitFirst(img, "@")).identifier

\* C6: for a well-formed digest reference with no tag or the tag latest before
\* the digest, with or without a port in the registry host, validateStep emits
\* the tag-with-digest Warning and no Error; with a specific tag it emits no
\* such Warning.
C6_DigestNeedsTag ==
    (StepReturned /\ WellFormedDigest(lastStep.image)
        /\ ~extractExpressionFromString(lastStep.image, "").found) =>
        /\ Errors(result) = {}
        /\ (CountMsg(result, MsgTagDigest) = 1) <=> (TagBeforeDigest(lastStep.image) = "latest")

\* C7: when two or more rules of the table match the script, the linters of
\* all matching rules are invoked, by rule position then linter position, and
\* no linter of another rule is.
C7_MultiMatchTableOrder ==
    (LintReturned /\ Cardinality(MatchingRules(configs, script)) >= 2) =>
        attempted = ExpectedLinters

\* C8: a non-empty script that does not begin with "#!" gets no finding from
\* shebang detection and, with the default table, is matched as if it began
\* with "#!/usr/bin/env sh\n": only the sh rule's linters are attempted.
C8_DefaultInterpreter ==
    (validator = "lint" /\ call \in {"returned", "panicked"} /\ configs = NewConfig
        /\ given # "" /\ ~HasPrefix(given, "#!")) =>
        /\ call = "returned"
        /\ script = DefaultShebang \o given
        /\ Warnings(result) = {}
        /\ MatchingRules(configs, script) = {1}
        /\ \A k \in 1..Len(attempted) : attempted[k][1] = 1

\* the image passes the variable rule, is not in digest form and parses as a tag
TagForm(img) ==
    /\ ~extractExpressionFromString(img, "").found
    /\ ~Contains(img, "@sha256")
    /\ ~NewTag(img).err

SpecificVersionError(r) ==
    \E i \in 1..Len(r) : r[i].sev = "Error" /\ Contains(r[i].msg, "specific version")

\* C9: for an image without variables, not in digest form, that parses as a
\* tag reference, validateStep emits an Error containing "specific version" if
\* and only if the parsed tag (latest when none is named) equals "latest"
\* ignoring case; ubuntu:1.0 gets the fully-qualified-name Warning and no Error.
C9_LatestTagRejected ==
    (StepReturned /\ TagForm(lastStep.image)) =>
        /\ SpecificVersionError(result) <=> ToLower(NewTag(lastStep.image).identifier) = "latest"
        /\ lastStep.image = "ubuntu:1.0" =>
              /\ CountMsg(result, MsgQualified) = 1
              /\ Errors(result) = {}

\* C9 witness: a step tagged LATEST got the Error.
C9_Witness ==
    /\ StepReturned
    /\ lastStep.image = "host.example.com/repo:LATEST"
    /\ SpecificVersionError(result)

\* C10: at every point of validateScript at most one temporary script file is
\* on disk.
C10_AtMostOneTempFile ==
    Cardinality(files) <= 1

====
